---- MODULE Spec2Model ----
(***************************************************************************)
(* Model of routes/api/profile.js: the profile resource handlers of the    *)
(* social-network API, as request state machines over the Profile, User    *)
(* and Post collections.  Every async handler is cut at its await points:  *)
(* one action per store call, the synchronous code between two awaits      *)
(* belonging to the action of the call that precedes it.                   *)
(*                                                                         *)
(* Strings that the code inspects (request body fields) are sequences of   *)
(* one-character strings; identifiers (ObjectIds) are naturals drawn from  *)
(* one generator.                                                          *)
(***************************************************************************)
EXTENDS Naturals, Integers, Sequences, FiniteSets

VARIABLES users, profiles, posts, nextId, reqs

vars == <<users, profiles, posts, nextId, reqs>>

(* ------------------------------ bounds -------------------------------- *)

\* request slots: how many requests can be in flight at once
MaxReq == 2
\* identifiers the generator hands out before id-consuming steps stop
MaxIds == 3
\* posts a user may own initially
MaxPosts == 1

Users == {"u1"}
Reqs == 1..MaxReq
Ids == 1..MaxIds

(* --------------------------- request bodies --------------------------- *)

Dev == <<"d", "e", "v">>
Ops == <<"o", "p", "s">>
Empty == <<>>

\* req.body of POST /: a function from the fields present to their text
PostBodies ==
  { [status |-> Dev, skills |-> <<"a", ",", " ", "b", " ">>],
    [status |-> Ops, skills |-> <<"c">>],
    [skills |-> <<"c">>],
    [status |-> Empty],
    [status |-> Dev, skills |-> Empty] }

\* req.body of PUT /experience
ExperienceBodies ==
  { [title |-> <<"x">>, company |-> <<"c">>, from |-> <<"1">>],
    [company |-> <<"c">>, from |-> <<"1">>],
    [title |-> Empty, company |-> Empty] }

\* req.body of PUT /education
EducationBodies ==
  { [school |-> <<"s">>, degree |-> <<"b">>, fieldofstudy |-> <<"m">>, from |-> <<"1">>],
    [school |-> <<"s">>, degree |-> Empty, from |-> <<"1">>],
    [x |-> Empty] }

\* what the upstream GitHub call can complete with
UpstreamOutcomes ==
  { [error |-> TRUE,  statusCode |-> 0,   body |-> <<>>],
    [error |-> FALSE, statusCode |-> 200, body |-> <<"[", "r1", ",", "r2", "]">>],
    [error |-> FALSE, statusCode |-> 200, body |-> <<"[", "]">>],
    [error |-> FALSE, statusCode |-> 404, body |-> <<"{", "}">>] }

(* ------------------------------ helpers ------------------------------- *)

\* check(field, msg).not().isEmpty(): the checks a handler runs, in order
PostChecks ==
  << [param |-> "status", msg |-> "Status is required"],
     [param |-> "skills", msg |-> "Skills is required"] >>

ExperienceChecks ==
  << [param |-> "title",   msg |-> "Title is required"],
     [param |-> "company", msg |-> "Company is required"],
     [param |-> "from",    msg |-> "From date is required"] >>

EducationChecks ==
  << [param |-> "school",       msg |-> "School is required"],
     [param |-> "degree",       msg |-> "Degree is required"],
     [param |-> "fieldofstudy", msg |-> "Field of study is required"],
     [param |-> "from",         msg |-> "From date is required"] >>

\* .not().isEmpty() fails on an absent field and on the empty string
IsEmpty(body, f) == f \notin DOMAIN body \/ body[f] = <<>>

\* a validation that stops at the first failing check
FirstErrorOnly(body, checks) ==
  LET all == SelectSeq(checks, LAMBDA c : IsEmpty(body, c.param))
  IN  IF all = <<>> THEN <<>> ELSE <<Head(all)>>

\* validationResult(req).array(): one entry per failing check, in run order
ValidationErrors(body, checks) ==
  SelectSeq(checks, LAMBDA c : IsEmpty(body, c.param))

RECURSIVE SplitRec(_, _)
SplitRec(s, cur) ==
  IF s = <<>> THEN <<cur>>
  ELSE IF Head(s) = "," THEN <<cur>> \o SplitRec(Tail(s), <<>>)
  ELSE SplitRec(Tail(s), Append(cur, Head(s)))

\* String.prototype.split(',')
Split(s) == SplitRec(s, <<>>)

RECURSIVE TrimLeft(_)
TrimLeft(s) == IF s # <<>> /\ Head(s) = " " THEN TrimLeft(Tail(s)) ELSE s

RECURSIVE TrimRight(_)
TrimRight(s) ==
  IF s # <<>> /\ s[Len(s)] = " " THEN TrimRight(SubSeq(s, 1, Len(s) - 1)) ELSE s

\* String.prototype.trim()
Trim(s) == TrimRight(TrimLeft(s))

\* skills.split(',').map(skill => skill.trim())
SkillsOf(s) == [i \in 1..Len(Split(s)) |-> Trim(Split(s)[i])]

\* the profileFields object built from the body
ProfileFields(u, body) ==
  [user |-> u, status |-> body.status, skills |-> SkillsOf(body.skills)]

\* newExp / newEdu: the entry built from the body, cast to a subdocument with a fresh _id
NewExp(body, id) ==
  [_id |-> id, title |-> body.title, company |-> body.company, from |-> body.from]

NewEdu(body, id) ==
  [_id |-> id, school |-> body.school, degree |-> body.degree,
   fieldofstudy |-> body.fieldofstudy, from |-> body.from]

\* Array.prototype.push(e), what unshift is not
Push(s, e) == Append(s, e)

\* Array.prototype.unshift(e)
Unshift(s, e) == <<e>> \o s

\* Array.prototype.indexOf(x): the 0-based position of the first match, or -1
RECURSIVE IndexFrom(_, _, _)
IndexFrom(s, x, i) ==
  IF i > Len(s) THEN -1
  ELSE IF s[i] = x THEN i - 1
  ELSE IndexFrom(s, x, i + 1)

\* an indexOf that counts positions from 1
IndexOfOneBased(s, x) == IF IndexFrom(s, x, 1) = -1 THEN -1 ELSE IndexFrom(s, x, 1) + 1

IndexOf(s, x) == IndexFrom(s, x, 1)

\* array.map(item => item.id)
IdsOf(s) == [i \in 1..Len(s) |-> s[i]._id]

\* Array.prototype.splice(start, deleteCount) with no inserted items
Splice(s, start, deleteCount) ==
  LET len  == Len(s)
      from == IF start < 0
                THEN (IF len + start < 0 THEN 0 ELSE len + start)
                ELSE (IF start > len THEN len ELSE start)
      cnt  == IF deleteCount < 0 THEN 0
              ELSE IF deleteCount > len - from THEN len - from
              ELSE deleteCount
  IN  SubSeq(s, 1, from) \o SubSeq(s, from + cnt + 1, len)

\* JSON.parse of the upstream body: the array of the repository tokens
JsonParse(text) == SelectSeq(text, LAMBDA t : t \notin {"[", "]", ",", "{", "}"})

(* ------------------------------ the store ----------------------------- *)

\* positions of the Profile documents whose user is u, in natural order
Matching(u) == { i \in 1..Len(profiles) : profiles[i].user = u }

First(S) == CHOOSE i \in S : \A j \in S : i <= j

\* Profile.findOne({ user: u }): a sequence holding the document, or empty for null
FindOne(u) == IF Matching(u) = {} THEN <<>> ELSE <<profiles[First(Matching(u))]>>

\* positions of the stored document with this _id
ById(id) == { i \in 1..Len(profiles) : profiles[i]._id = id }

\* the insert of a new document: the collection takes it whatever it already holds
InsertProfile(d) == Append(profiles, d)

\* the update a save of a read document sends: the modified array replaces the stored
\* one, whatever was written since the read
SaveModified(d, kind) == [profiles EXCEPT ![First(ById(d._id))][kind] = d[kind]]

RemoveAt(s, i) == SubSeq(s, 1, i - 1) \o SubSeq(s, i + 1, Len(s))

(* ------------------------------ requests ------------------------------ *)

\* a request slot: the handler that runs, its await point, its req.user.id, req.body and
\* req.params id (for an add, the _id of the new entry), the locals `profile` and
\* removeIndex, the console.error output of the catch blocks and of the callback, the
\* responses sent and the store calls made so far; `read` is the array of the copy as
\* findOne returned it, before unshift or splice changed it in place
IdleReq ==
  [op |-> "idle", pc |-> "idle", user |-> "none", body |-> <<>>, id |-> 0,
   doc |-> <<>>, read |-> <<>>, removeIndex |-> -1, resp |-> <<>>, log |-> "",
   calls |-> 0]

\* a response: status code, msg, validation errors, parsed upstream JSON.  The profile a
\* 200 carries is the handler's local copy; the record keeps the status line only
Response(code, msg, errors, json) ==
  [code |-> code, msg |-> msg, errors |-> errors, json |-> json]

ServerError == Response(500, "Server Error", <<>>, <<>>)

Ok == Response(200, "", <<>>, <<>>)

\* res.json(...) on the resumption after a store call: the request is over
Finish(req, rsp) ==
  [req EXCEPT !.pc = "done", !.resp = Append(@, rsp), !.doc = <<>>, !.read = <<>>,
              !.calls = @ + 1]

\* the catch block: console.error(err.message), then the 500
Catch(req, message) ==
  [req EXCEPT !.pc = "done", !.resp = Append(@, ServerError), !.doc = <<>>,
              !.read = <<>>, !.log = message, !.calls = @ + 1]

\* what a store call that fails throws, and what reading a field of null throws
StoreError == "store error"

TypeError == "Cannot read property of null"

\* the request moves on to its next store call
Await(req, pc, d) == [req EXCEPT !.pc = pc, !.doc = d, !.calls = @ + 1]

\* the 400 of a failed validation, sent before any store call
Reject(req, errors) ==
  [req EXCEPT !.pc = "done", !.resp = <<Response(400, "", errors, <<>>)>>]

Init ==
  /\ users = Users
  /\ profiles = <<>>
  /\ posts \in [Users -> 0..MaxPosts]
  /\ nextId = 1
  /\ reqs = [r \in Reqs |-> IdleReq]

(* ------------------------------ GET /me ------------------------------- *)

GetMe(r, u, throws) ==
  /\ reqs[r].pc = "idle"
  /\ LET req == [IdleReq EXCEPT !.op = "me", !.user = u]
         found == FindOne(u)
     IN  reqs' = [reqs EXCEPT ![r] =
           IF throws THEN Catch(req, StoreError)
           ELSE IF found = <<>>
             THEN Finish(req, Response(400, "There is no profile for this user",
                                       <<>>, <<>>))
             ELSE Finish(req, Ok)]
  /\ UNCHANGED <<users, profiles, posts, nextId>>

(* ------------------------------- POST / ------------------------------- *)

\* the document findOneAndUpdate leaves: $set of profileFields on the first match
SetFields(d, f) == [d EXCEPT !.status = f.status, !.skills = f.skills]

\* the document a first write creates
NewProfile(id, f) ==
  [_id |-> id, user |-> f.user, status |-> f.status, skills |-> f.skills,
   experience |-> <<>>, education |-> <<>>]

PostProfile(r, u, body, throws) ==
  /\ reqs[r].pc = "idle"
  /\ LET errors == ValidationErrors(body, PostChecks)
         req == [IdleReq EXCEPT !.op = "post", !.user = u, !.body = body]
         found == FindOne(u)
     IN  reqs' = [reqs EXCEPT ![r] =
           IF errors # <<>> THEN Reject(req, errors)
           ELSE IF throws THEN Catch(req, StoreError)
           ELSE IF found # <<>> THEN Await(req, "findOneAndUpdate", <<>>)
           ELSE Await(req, "save", <<>>)]
  /\ UNCHANGED <<users, profiles, posts, nextId>>

PostFindOneAndUpdate(r, throws) ==
  /\ reqs[r].op = "post" /\ reqs[r].pc = "findOneAndUpdate"
  /\ LET u == reqs[r].user
         f == ProfileFields(u, reqs[r].body)
     IN  IF throws
           THEN /\ reqs' = [reqs EXCEPT ![r] = Catch(@, StoreError)]
                /\ UNCHANGED <<profiles, nextId>>
           ELSE IF Matching(u) # {}
             THEN LET i == First(Matching(u))
                      d == SetFields(profiles[i], f)
                  IN  /\ profiles' = [profiles EXCEPT ![i] = d]
                      /\ nextId' = nextId
                      /\ reqs' = [reqs EXCEPT ![r] =
                           Finish(@, Ok)]
             ELSE LET d == NewProfile(nextId, f)
                  IN  /\ nextId <= MaxIds
                      /\ profiles' = Append(profiles, d)
                      /\ nextId' = nextId + 1
                      /\ reqs' = [reqs EXCEPT ![r] =
                           Finish(@, Ok)]
  /\ UNCHANGED <<users, posts>>

\* new Profile(profileFields), profile.save()
PostSave(r, throws) ==
  /\ reqs[r].op = "post" /\ reqs[r].pc = "save"
  /\ IF throws
       THEN /\ reqs' = [reqs EXCEPT ![r] = Catch(@, StoreError)]
            /\ UNCHANGED <<profiles, nextId>>
       ELSE LET d == NewProfile(nextId, ProfileFields(reqs[r].user, reqs[r].body))
            IN  /\ nextId <= MaxIds
                /\ profiles' = InsertProfile(d)
                /\ nextId' = nextId + 1
                /\ reqs' = [reqs EXCEPT ![r] =
                     Finish(@, Ok)]
  /\ UNCHANGED <<users, posts>>

(* ------------------------------ DELETE / ------------------------------ *)

\* a delete that begins with the User record
DeleteAccountUserFirst(r, u, throws) ==
  /\ reqs[r].pc = "idle"
  /\ LET req == [IdleReq EXCEPT !.op = "delete", !.user = u]
     IN  IF throws
           THEN /\ reqs' = [reqs EXCEPT ![r] = Catch(req, StoreError)]
                /\ users' = users
           ELSE /\ users' = users \ {u}
                /\ reqs' = [reqs EXCEPT ![r] = Await(req, "findOneAndRemoveProfile", <<>>)]
  /\ UNCHANGED <<profiles, posts, nextId>>

DeleteAccount(r, u, throws) ==
  /\ reqs[r].pc = "idle"
  /\ LET req == [IdleReq EXCEPT !.op = "delete", !.user = u]
     IN  IF throws
           THEN /\ reqs' = [reqs EXCEPT ![r] = Catch(req, StoreError)]
                /\ posts' = posts
           ELSE /\ posts' = [posts EXCEPT ![u] = 0]
                /\ reqs' = [reqs EXCEPT ![r] = Await(req, "findOneAndRemoveProfile", <<>>)]
  /\ UNCHANGED <<users, profiles, nextId>>

DeleteProfile(r, throws) ==
  /\ reqs[r].op = "delete" /\ reqs[r].pc = "findOneAndRemoveProfile"
  /\ LET m == Matching(reqs[r].user)
     IN  IF throws
           THEN /\ reqs' = [reqs EXCEPT ![r] = Catch(@, StoreError)]
                /\ profiles' = profiles
           ELSE /\ profiles' = IF m = {} THEN profiles ELSE RemoveAt(profiles, First(m))
                /\ reqs' = [reqs EXCEPT ![r] = Await(@, "findOneAndRemoveUser", <<>>)]
  /\ UNCHANGED <<users, posts, nextId>>

DeleteUser(r, throws) ==
  /\ reqs[r].op = "delete" /\ reqs[r].pc = "findOneAndRemoveUser"
  /\ IF throws
       THEN /\ reqs' = [reqs EXCEPT ![r] = Catch(@, StoreError)]
            /\ users' = users
       ELSE /\ users' = users \ {reqs[r].user}
            /\ reqs' = [reqs EXCEPT ![r] = Await(@, "respond", <<>>)]
  /\ UNCHANGED <<profiles, posts, nextId>>

DeleteRespond(r) ==
  /\ reqs[r].op = "delete" /\ reqs[r].pc = "respond"
  /\ reqs' = [reqs EXCEPT ![r].pc = "done",
                          ![r].resp = Append(@, Response(200, "User deleted", <<>>, <<>>))]
  /\ UNCHANGED <<users, profiles, posts, nextId>>

(* ------------------- experience and education entries ----------------- *)

KindOf(op) ==
  IF op \in {"putExperience", "deleteExperience"} THEN "experience" ELSE "education"

NewEntry(op, body, id) ==
  IF op = "putExperience" THEN NewExp(body, id) ELSE NewEdu(body, id)

\* the checks and their 400; findOne; unshift on the copy read (a null copy throws)
PutEntry(op, checks, r, u, body, throws) ==
  /\ reqs[r].pc = "idle"
  /\ LET errors == ValidationErrors(body, checks)
         req == [IdleReq EXCEPT !.op = op, !.user = u, !.body = body]
         found == FindOne(u)
         kind == KindOf(op)
     IN  IF errors # <<>>
           THEN reqs' = [reqs EXCEPT ![r] = Reject(req, errors)] /\ nextId' = nextId
           ELSE IF throws \/ found = <<>>
             THEN /\ reqs' = [reqs EXCEPT ![r] =
                       Catch(req, IF throws THEN StoreError ELSE TypeError)]
                  /\ nextId' = nextId
             ELSE /\ nextId <= MaxIds
                  /\ reqs' = [reqs EXCEPT ![r] =
                       Await([req EXCEPT !.id = nextId, !.read = found[1][kind]], "save",
                             <<[found[1] EXCEPT ![kind] =
                                  Unshift(@, NewEntry(op, body, nextId))]>>)]
                  /\ nextId' = nextId + 1
  /\ UNCHANGED <<users, profiles, posts>>

\* a removal that takes a missing profile for one without entries
DeleteEntryNullSafe(op, r, u, id, throws) ==
  /\ reqs[r].pc = "idle"
  /\ LET req == [IdleReq EXCEPT !.op = op, !.user = u, !.id = id]
         found == FindOne(u)
         kind == KindOf(op)
     IN  reqs' = [reqs EXCEPT ![r] =
           IF throws THEN Catch(req, StoreError)
           ELSE IF found = <<>> THEN Finish(req, Ok)
           ELSE LET removeIndex == IndexOf(IdsOf(found[1][kind]), id)
                IN  Await([req EXCEPT !.removeIndex = removeIndex, !.read = found[1][kind]],
                          "save",
                          <<[found[1] EXCEPT ![kind] = Splice(@, removeIndex, 1)]>>)]
  /\ UNCHANGED <<users, profiles, posts, nextId>>

\* findOne; removeIndex and splice on the copy read (a null copy throws)
DeleteEntry(op, r, u, id, throws) ==
  /\ reqs[r].pc = "idle"
  /\ LET req == [IdleReq EXCEPT !.op = op, !.user = u, !.id = id]
         found == FindOne(u)
         kind == KindOf(op)
     IN  reqs' = [reqs EXCEPT ![r] =
           IF throws \/ found = <<>>
             THEN Catch(req, IF throws THEN StoreError ELSE TypeError)
             ELSE LET removeIndex == IndexOf(IdsOf(found[1][kind]), id)
                  IN  Await([req EXCEPT !.removeIndex = removeIndex, !.read = found[1][kind]],
                          "save",
                            <<[found[1] EXCEPT ![kind] = Splice(@, removeIndex, 1)]>>)]
  /\ UNCHANGED <<users, profiles, posts, nextId>>

\* a save that applies the request's change to the array as stored now
EntrySaveMerged(op, r, throws) ==
  /\ reqs[r].op = op /\ reqs[r].pc = "save"
  /\ LET d == reqs[r].doc[1]
         kind == KindOf(op)
     IN  IF throws \/ ById(d._id) = {}
           THEN /\ reqs' = [reqs EXCEPT ![r] = Catch(@, StoreError)]
                /\ profiles' = profiles
           ELSE LET i == First(ById(d._id))
                    now == profiles[i][kind]
                    merged == IF op \in {"putExperience", "putEducation"}
                                THEN Unshift(now, d[kind][1])
                                ELSE Splice(now, IndexOf(IdsOf(now), reqs[r].id), 1)
                IN  /\ profiles' = [profiles EXCEPT ![i][kind] = merged]
                    /\ reqs' = [reqs EXCEPT ![r] =
                         Finish(@, Ok)]
  /\ UNCHANGED <<users, posts, nextId>>

\* profile.save(): the modified array of the copy replaces the stored one; the
\* document is addressed by _id and a save of a document no longer stored throws
EntrySave(op, r, throws) ==
  /\ reqs[r].op = op /\ reqs[r].pc = "save"
  /\ LET d == reqs[r].doc[1]
         kind == KindOf(op)
     IN  IF throws \/ ById(d._id) = {}
           THEN /\ reqs' = [reqs EXCEPT ![r] = Catch(@, StoreError)]
                /\ profiles' = profiles
           ELSE /\ profiles' = SaveModified(d, kind)
                /\ reqs' = [reqs EXCEPT ![r] =
                     Finish(@, Ok)]
  /\ UNCHANGED <<users, posts, nextId>>

PutExperience(r, u, body, throws) ==
  PutEntry("putExperience", ExperienceChecks, r, u, body, throws)

PutExperienceSaveMerged(r, throws) == EntrySaveMerged("putExperience", r, throws)

PutExperienceSave(r, throws) == EntrySave("putExperience", r, throws)

DeleteExperience(r, u, id, throws) == DeleteEntry("deleteExperience", r, u, id, throws)

DeleteExperienceSave(r, throws) == EntrySave("deleteExperience", r, throws)

PutEducation(r, u, body, throws) ==
  PutEntry("putEducation", EducationChecks, r, u, body, throws)

PutEducationSave(r, throws) == EntrySave("putEducation", r, throws)

DeleteEducation(r, u, id, throws) == DeleteEntry("deleteEducation", r, u, id, throws)

DeleteEducationSave(r, throws) == EntrySave("deleteEducation", r, throws)

(* ------------------------ GET /github/:username ----------------------- *)

\* the options object and the call of request(options, callback)
GetGithub(r) ==
  /\ reqs[r].pc = "idle"
  /\ reqs' = [reqs EXCEPT ![r] = [IdleReq EXCEPT !.op = "github", !.pc = "request"]]
  /\ UNCHANGED <<users, profiles, posts, nextId>>

\* a callback that answers a transport error with a 500
GithubCallbackAnswersError(r, o) ==
  /\ reqs[r].op = "github" /\ reqs[r].pc = "request"
  /\ reqs' = [reqs EXCEPT ![r] =
       IF o.error THEN Finish([@ EXCEPT !.body = o], ServerError)
       ELSE IF o.statusCode # 200
         THEN Finish([@ EXCEPT !.body = o],
                     Response(404, "No Github profile found", <<>>, <<>>))
         ELSE Finish([@ EXCEPT !.body = o], Response(200, "", <<>>, JsonParse(o.body)))]
  /\ UNCHANGED <<users, profiles, posts, nextId>>

\* the callback (error, response, body): a transport error is logged and nothing is
\* sent; the slot keeps what the upstream call completed with
GithubCallback(r, o) ==
  /\ reqs[r].op = "github" /\ reqs[r].pc = "request"
  /\ reqs' = [reqs EXCEPT ![r] =
       IF o.error
         THEN [@ EXCEPT !.pc = "logged", !.body = o, !.log = "request error",
                        !.calls = @ + 1]
       ELSE IF o.statusCode # 200
         THEN Finish([@ EXCEPT !.body = o],
                     Response(404, "No Github profile found", <<>>, <<>>))
         ELSE Finish([@ EXCEPT !.body = o], Response(200, "", <<>>, JsonParse(o.body)))]
  /\ UNCHANGED <<users, profiles, posts, nextId>>

(* ------------------------------ lifecycle ----------------------------- *)

\* a request that was answered leaves; its slot serves the next one
Retire(r) ==
  /\ reqs[r].pc = "done"
  /\ reqs' = [reqs EXCEPT ![r] = IdleReq]
  /\ UNCHANGED <<users, profiles, posts, nextId>>

(* --------------------------- specifications --------------------------- *)

Begin(r) ==
  \/ \E u \in Users, throws \in BOOLEAN : GetMe(r, u, throws)
  \/ \E u \in Users, body \in PostBodies, throws \in BOOLEAN : PostProfile(r, u, body, throws)
  \/ \E u \in Users, throws \in BOOLEAN : DeleteAccount(r, u, throws)
  \/ \E u \in Users, body \in ExperienceBodies, throws \in BOOLEAN :
       PutExperience(r, u, body, throws)
  \/ \E u \in Users, id \in Ids, throws \in BOOLEAN : DeleteExperience(r, u, id, throws)
  \/ \E u \in Users, body \in EducationBodies, throws \in BOOLEAN :
       PutEducation(r, u, body, throws)
  \/ \E u \in Users, id \in Ids, throws \in BOOLEAN : DeleteEducation(r, u, id, throws)
  \/ GetGithub(r)

Step(r) ==
  \/ \E throws \in BOOLEAN : PostFindOneAndUpdate(r, throws)
  \/ \E throws \in BOOLEAN : PostSave(r, throws)
  \/ \E throws \in BOOLEAN : DeleteProfile(r, throws)
  \/ \E throws \in BOOLEAN : DeleteUser(r, throws)
  \/ DeleteRespond(r)
  \/ \E throws \in BOOLEAN : PutExperienceSave(r, throws)
  \/ \E throws \in BOOLEAN : DeleteExperienceSave(r, throws)
  \/ \E throws \in BOOLEAN : PutEducationSave(r, throws)
  \/ \E throws \in BOOLEAN : DeleteEducationSave(r, throws)
  \/ \E o \in UpstreamOutcomes : GithubCallback(r, o)
  \/ Retire(r)

\* requests overlap: a request may begin while others wait on their store calls
Next == \E r \in Reqs : Begin(r) \/ Step(r)

Spec == Init /\ [][Next]_vars

(* ------------------------------- claims ------------------------------- *)

PutOps == {"putExperience", "putEducation"}

DeleteOps == {"deleteExperience", "deleteEducation"}

EntryOps == PutOps \cup DeleteOps

\* the identifiers of the entries stored for u under kind
StoredIds(u, kind) ==
  { profiles[i][kind][j]._id : <<i, j>> \in
      { p \in (1..Len(profiles)) \X (1..MaxIds + 1) :
          profiles[p[1]].user = u /\ p[2] <= Len(profiles[p[1]][kind]) } }

\* a request that has just been answered with a plain 200
Answered200(r) == reqs'[r].pc = "done" /\ reqs'[r].resp = <<Ok>>

C2_DeleteLeavesNothing ==
  [][\A r \in Reqs, u \in Users :
       (reqs[r].op = "delete" /\ reqs[r].pc = "respond" /\ reqs[r].user = u
          /\ reqs'[r].pc = "done")
       => /\ reqs'[r].resp = <<Response(200, "User deleted", <<>>, <<>>)>>
          /\ u \notin users'
          /\ Matching(u)' = {}
          /\ posts'[u] = 0]_vars

\* a save by slot r is answered 200 and nothing was written to the array between the
\* read of r and this save: the request ran as if alone
SavedUnraced(r) ==
  /\ reqs[r].pc = "save" /\ Answered200(r)
  /\ profiles[First(Matching(reqs[r].user))][KindOf(reqs[r].op)] = reqs[r].read

IdSet(s) == { s[j]._id : j \in 1..Len(s) }

\* C3: a DELETE of an experience or education entry whose identifier matches no entry
\* of the caller's profile leaves the stored sequence as it was.
C3_NoMatchNoChange ==
  [][\A r \in Reqs :
       (reqs[r].op \in DeleteOps /\ SavedUnraced(r)
          /\ reqs[r].id \notin IdSet(reqs[r].read))
       => profiles' = profiles]_vars

NewestFirst(s) == \A j \in 1..Len(s), k \in 1..Len(s) : j < k => s[j]._id > s[k]._id

\* C5: a valid PUT /experience or /education by a user who has a profile puts the new
\* entry at index 0 and shifts every earlier entry up by one unchanged; requests run one
\* after another leave the entries in the reverse of their insertion order.
C5_AddAtFront ==
  /\ [](\A i \in 1..Len(profiles) :
          NewestFirst(profiles[i].experience) /\ NewestFirst(profiles[i].education))
  /\ [][\A r \in Reqs :
          (reqs[r].op \in PutOps /\ SavedUnraced(r))
          => LET i == First(Matching(reqs[r].user))
                 kind == KindOf(reqs[r].op)
                 old == profiles[i][kind]
                 new == profiles'[i][kind]
             IN  /\ Len(new) = Len(old) + 1
                 /\ new[1]._id = reqs[r].id
                 /\ new[1]._id \notin IdSet(old)
                 /\ \A f \in DOMAIN reqs[r].body : new[1][f] = reqs[r].body[f]
                 /\ \A j \in 1..Len(old) : new[j + 1] = old[j]]_vars

\* an add was answered 200 and its entry is stored at index 0 before an earlier one
C5_Witness ==
  \E r \in Reqs, i \in 1..Len(profiles) :
    /\ reqs[r].op \in PutOps /\ reqs[r].pc = "done" /\ reqs[r].resp = <<Ok>>
    /\ Len(profiles[i][KindOf(reqs[r].op)]) >= 2
    /\ profiles[i][KindOf(reqs[r].op)][1]._id = reqs[r].id

\* the required fields of the three validated requests
C6_Required(op) ==
  IF op = "post" THEN {"status", "skills"}
  ELSE IF op = "putExperience" THEN {"title", "company", "from"}
  ELSE {"school", "degree", "fieldofstudy", "from"}

C6_Failing(op, body) ==
  { f \in C6_Required(op) : f \notin DOMAIN body \/ body[f] = <<>> }

\* C6: a POST /, PUT /experience or PUT /education with a required field missing or
\* empty responds 400 with one error entry per failing field, and makes no store call:
\* the Profile, User and Post collections are unchanged.
C6_ValidationFirst ==
  [][\A r \in Reqs :
       (reqs[r].pc = "idle" /\ reqs'[r].op \in {"post"} \cup PutOps
          /\ C6_Failing(reqs'[r].op, reqs'[r].body) # {})
       => /\ reqs'[r].pc = "done"
          /\ Len(reqs'[r].resp) = 1
          /\ reqs'[r].resp[1].code = 400
          /\ Len(reqs'[r].resp[1].errors) =
               Cardinality(C6_Failing(reqs'[r].op, reqs'[r].body))
          /\ { reqs'[r].resp[1].errors[k].param :
                 k \in 1..Len(reqs'[r].resp[1].errors) } =
               C6_Failing(reqs'[r].op, reqs'[r].body)
          /\ reqs'[r].calls = 0
          /\ UNCHANGED <<users, profiles, posts, nextId>>]_vars

C6_Witness ==
  \E r \in Reqs :
    /\ reqs[r].op \in {"post"} \cup PutOps /\ reqs[r].pc = "done"
    /\ reqs[r].resp[1].code = 400
    /\ Len(reqs[r].resp[1].errors) >= 2
    /\ reqs[r].calls = 0

\* C7: two add/remove requests of one user that interleave can lose an update: a save
\* that succeeds replaces the stored sequence by the saver's copy, whatever was saved
\* since that copy was read, and a stale copy is never refused.
C7_LastWriteWins ==
  /\ [][\A r \in Reqs :
          (reqs[r].op \in EntryOps /\ reqs[r].pc = "save" /\ Answered200(r))
          => LET d == reqs[r].doc[1]
                 kind == KindOf(reqs[r].op)
             IN  /\ ById(d._id) # {}
                 /\ Len(profiles') = Len(profiles)
                 /\ profiles'[First(ById(d._id))][kind] = d[kind]]_vars
  /\ [](\A r \in Reqs :
          (reqs[r].op \in EntryOps /\ reqs[r].pc = "save"
             /\ ById(reqs[r].doc[1]._id) # {})
          => ENABLED (EntrySave(reqs[r].op, r, FALSE) /\ Answered200(r)))

\* two PUT /experience of one user overlapped and both were answered 200; the entry
\* of the one is stored, the entry of the other is not
C7_Witness ==
  \E r \in Reqs, q \in Reqs :
    /\ r # q
    /\ reqs[r].op = "putExperience" /\ reqs[r].pc = "done" /\ reqs[r].resp = <<Ok>>
    /\ reqs[q].op = "putExperience" /\ reqs[q].pc = "done" /\ reqs[q].resp = <<Ok>>
    /\ reqs[q].user = reqs[r].user
    /\ Matching(reqs[r].user) # {}
    /\ reqs[q].id \in StoredIds(reqs[r].user, "experience")
    /\ reqs[r].id \notin StoredIds(reqs[r].user, "experience")

\* the array a body of UpstreamOutcomes is the JSON text of
C8_Json(body) == IF body = <<"[", "r1", ",", "r2", "]">> THEN <<"r1", "r2">> ELSE <<>>

\* C8: GET /github/:username sends exactly one response with the upstream JSON when the
\* upstream call completes with 200, exactly one 404 'No Github profile found' when it
\* completes with another status, and only logs a transport error: no response is ever
\* sent for that request, while other requests can still begin.
C8_GithubResponses ==
  /\ [][\A r \in Reqs :
          /\ (reqs[r].op = "github" /\ reqs[r].pc = "request" /\ reqs'[r] # reqs[r])
             => LET o == reqs'[r].body
                IN  /\ o \in UpstreamOutcomes
                    /\ o.error
                         => reqs'[r].pc = "logged" /\ reqs'[r].resp = <<>>
                    /\ (~o.error /\ o.statusCode = 200)
                         => /\ reqs'[r].pc = "done"
                            /\ reqs'[r].resp = <<Response(200, "", <<>>, C8_Json(o.body))>>
                    /\ (~o.error /\ o.statusCode # 200)
                         => /\ reqs'[r].pc = "done"
                            /\ reqs'[r].resp =
                                 <<Response(404, "No Github profile found", <<>>, <<>>)>>
          /\ reqs[r].pc = "logged" => reqs'[r] = reqs[r]]_vars
  /\ [](\A r \in Reqs, q \in Reqs :
          (reqs[r].pc = "logged" /\ reqs[q].pc = "idle") => ENABLED Begin(q))

C8_Witness ==
  \E r \in Reqs, q \in Reqs :
    /\ reqs[r].op = "github" /\ reqs[r].pc = "logged" /\ reqs[r].resp = <<>>
    /\ reqs[r].body.error
    /\ reqs[q].op = "github" /\ reqs[q].pc = "done"
    /\ reqs[q].resp = <<Response(200, "", <<>>, <<"r1", "r2">>)>>

\* a step of the DELETE / that slot r runs
DeleteStep(r) == reqs'[r].op = "delete" /\ reqs'[r] # reqs[r]

\* no absent Profile of u with Posts of u left
C9_ProfileOrder(u) == Matching(u) = {} => posts[u] = 0

\* no absent User u with Posts of u left
C9_UserOrder(u) == u \notin users => posts[u] = 0

\* no absent User u with a Profile of u left
C9_UserProfileOrder(u) == u \notin users => Matching(u) = {}

C10_NoProfile ==
  [][\A r \in Reqs :
       /\ (reqs[r].pc = "idle" /\ reqs'[r].op \in EntryOps
             /\ Matching(reqs'[r].user) = {}
             /\ (reqs'[r].op \in PutOps => C6_Failing(reqs'[r].op, reqs'[r].body) = {}))
          => /\ reqs'[r].pc = "done"
             /\ reqs'[r].resp = <<ServerError>>
             /\ UNCHANGED <<users, profiles, posts, nextId>>
       /\ (reqs'[r].op \in EntryOps /\ reqs'[r] # reqs[r])
          => /\ Len(profiles') = Len(profiles)
             /\ \A i \in 1..Len(profiles) :
                  /\ profiles'[i]._id = profiles[i]._id
                  /\ profiles'[i].user = profiles[i].user
             /\ users' = users /\ posts' = posts]_vars

\* an entry request of a user whose account is deleted ended in the catch block
C10_Witness ==
  \E r \in Reqs :
    /\ reqs[r].op \in EntryOps /\ reqs[r].pc = "done"
    /\ reqs[r].resp = <<ServerError>> /\ reqs[r].log = TypeError
    /\ reqs[r].user \notin users /\ Matching(reqs[r].user) = {}

====
